---- MODULE Spec2Model ----
(***************************************************************************)
(* The setup-gh-cli action: version specifier, release resolution, asset   *)
(* naming, installation into the tool cache and verification.              *)
(*                                                                         *)
(* The repository holds three revisions of the one program file:           *)
(*   "part_001"  src/unnamed/part_001  (ICleanedVersion, bin lookup)       *)
(*   "part_000"  src/unnamed/part_000  (assetExtension as a function)      *)
(*   "main_ts"   src/src/main.ts       (assetExtension as a constant)      *)
(* The variable `variant` says which of them is being run.                 *)
(*                                                                         *)
(* Strings the program computes with (versions, tags, asset names, the     *)
(* output of `gh version`) are sequences of one-character strings.         *)
(***************************************************************************)
EXTENDS Integers, Sequences, FiniteSets, TLC

\* ---------------------------------------------------------------- bounds

\* Longest release list the registry answers with, besides the fixed lists
\* (ExampleTags, AscendingTags, LargeNumberTags).
MaxTags == 1
\* Number of runs of the action on the same runner (same tool cache).
MaxRuns == 2

\* ---------------------------------------------------------- string helpers

Digits == {"0", "1", "2", "3", "4", "5", "6", "7", "8", "9"}
Letters == {"a", "b", "c", "d", "e", "f", "g", "h", "i", "j", "k", "l", "m",
            "n", "o", "p", "q", "r", "s", "t", "u", "v", "w", "x", "y", "z",
            "A", "B", "C", "D", "E", "F", "G", "H", "I", "J", "K", "L", "M",
            "N", "O", "P", "Q", "R", "S", "T", "U", "V", "W", "X", "Y", "Z"}
\* Characters of a pre-release or build identifier, in ASCII order.
AsciiOrder ==
    <<"-", "0", "1", "2", "3", "4", "5", "6", "7", "8", "9",
      "A", "B", "C", "D", "E", "F", "G", "H", "I", "J", "K", "L", "M",
      "N", "O", "P", "Q", "R", "S", "T", "U", "V", "W", "X", "Y", "Z",
      "a", "b", "c", "d", "e", "f", "g", "h", "i", "j", "k", "l", "m",
      "n", "o", "p", "q", "r", "s", "t", "u", "v", "w", "x", "y", "z">>
Ord(c) == CHOOSE i \in 1..Len(AsciiOrder) : AsciiOrder[i] = c
\* White space and line terminators, which String.prototype.trim removes:
\* tab, line feed, vertical tab (U+000B), form feed, carriage return, space,
\* no-break space (U+00A0), U+1680, U+2000..U+200A, U+2028, U+2029, U+202F,
\* U+205F, U+3000 and U+FEFF.  U+000B, U+00A0, U+1680 and U+FEFF stand in the
\* strings below as themselves; a character from U+2000 on, which a string
\* of this module cannot hold, is written by its code point.
Whitespace ==
    {"\t", "\n", "", "\f", "\r", " ", " ", " ",
     "U+2000", "U+2001", "U+2002", "U+2003", "U+2004", "U+2005", "U+2006",
     "U+2007", "U+2008", "U+2009", "U+200A", "U+2028", "U+2029", "U+202F",
     "U+205F", "U+3000", "﻿"}

Null == <<"null">>

IsPrefixAt(needle, hay, i) ==
    /\ i + Len(needle) - 1 <= Len(hay)
    /\ \A k \in 1..Len(needle) : hay[i + k - 1] = needle[k]

\* String.prototype.indexOf(needle) >= 0
Contains(hay, needle) ==
    \E i \in 1..(Len(hay) + 1) : IsPrefixAt(needle, hay, i)

\* String.prototype.trim
RECURSIVE TrimLeft(_)
TrimLeft(s) ==
    IF s # <<>> /\ Head(s) \in Whitespace THEN TrimLeft(Tail(s)) ELSE s
RECURSIVE TrimRight(_)
TrimRight(s) ==
    IF s # <<>> /\ s[Len(s)] \in Whitespace
    THEN TrimRight(SubSeq(s, 1, Len(s) - 1)) ELSE s
Trim(s) == TrimRight(TrimLeft(s))

\* s.replace(/^[=v]+/, '')
RECURSIVE StripEqV(_)
StripEqV(s) ==
    IF s # <<>> /\ Head(s) \in {"=", "v"} THEN StripEqV(Tail(s)) ELSE s

\* Index of the first occurrence of character c in s, 0 when absent.
IndexOfChar(s, c) ==
    IF \E i \in 1..Len(s) : s[i] = c
    THEN CHOOSE i \in 1..Len(s) : s[i] = c /\ \A j \in 1..(i - 1) : s[j] # c
    ELSE 0

\* s.split(c)
RECURSIVE Split(_, _)
Split(s, c) ==
    IF IndexOfChar(s, c) = 0 THEN <<s>>
    ELSE <<SubSeq(s, 1, IndexOfChar(s, c) - 1)>>
           \o Split(SubSeq(s, IndexOfChar(s, c) + 1, Len(s)), c)

\* parts.join(c)
RECURSIVE Join(_, _)
Join(parts, c) ==
    IF parts = <<>> THEN <<>>
    ELSE IF Len(parts) = 1 THEN parts[1]
    ELSE parts[1] \o <<c>> \o Join(Tail(parts), c)

\* path.basename(path, suffix) of node, by the values its loop (from the end
\* of path down to start) leaves in start, end and firstNonSlashEnd.  The
\* path separators: "/" for path.posix, "/" and "\" for path.win32, which the
\* program gets on windows.  Indices count from 0 as in the source.
Separators(win32) == IF win32 THEN {"/", "\\"} ELSE {"/"}
Max(S) == CHOOSE i \in S : \A j \in S : j <= i
\* path.slice(start, end)
Slice(path, start, end) == SubSeq(path, start + 1, end)
\* The initial start: path.win32 begins after a drive prefix ("C:").
BasenameStart(path, win32) ==
    IF win32 /\ Len(path) >= 2 /\ path[1] \in Letters /\ path[2] = ":"
    THEN 2 ELSE 0
\* One past the last character that is no separator; -1 when there is none.
FirstNonSlashEnd(path, seps, lo) ==
    IF \E i \in lo..(Len(path) - 1) : path[i + 1] \notin seps
    THEN (CHOOSE i \in lo..(Len(path) - 1) :
            /\ path[i + 1] \notin seps
            /\ \A j \in (i + 1)..(Len(path) - 1) : path[j + 1] \in seps) + 1
    ELSE -1
\* start: one past the separator the loop breaks at, the first one below the
\* last component; the initial start when the loop meets none.
ComponentStart(path, seps, lo, fnse) ==
    IF \E i \in lo..(fnse - 2) : path[i + 1] \in seps
    THEN Max({i \in lo..(fnse - 2) : path[i + 1] \in seps}) + 1
    ELSE lo
\* The number of characters of suffix the loop matches, from the end of the
\* last component backwards.
Matched(comp, suffix) ==
    Max({k \in 0..Len(suffix) :
           /\ k <= Len(comp)
           /\ \A j \in 1..k :
                comp[Len(comp) - j + 1] = suffix[Len(suffix) - j + 1]})
\* end after the loop with a suffix: where the suffix begins when all of it
\* matched, firstNonSlashEnd when a character differed, still -1 when the
\* component ended first (or there is no component).
SuffixEnd(comp, suffix, fnse) ==
    IF fnse = -1 THEN -1
    ELSE IF Matched(comp, suffix) = Len(suffix) THEN fnse - Len(suffix)
    ELSE IF Matched(comp, suffix) < Len(comp) THEN fnse
    ELSE -1
\* The branch with a suffix, after its loop: if (start === end)
\* end = firstNonSlashEnd; else if (end === -1) end = path.length;
\* return path.slice(start, end)
BasenameWithSuffix(path, start, end, fnse) ==
    Slice(path, start,
          IF start = end THEN fnse ELSE IF end = -1 THEN Len(path) ELSE end)
\* Either branch, its loop running over path with the separators seps down
\* to the initial start lo.  Without a suffix: if (end === -1) return '';
\* return path.slice(start, end).
BasenameOf(path, suffix, seps, lo, fnse) ==
    IF Len(suffix) > 0 /\ Len(suffix) <= Len(path)
    THEN IF suffix = path THEN <<>>
         ELSE BasenameWithSuffix(
                path, ComponentStart(path, seps, lo, fnse),
                SuffixEnd(Slice(path, ComponentStart(path, seps, lo, fnse),
                                fnse),
                          suffix, fnse),
                fnse)
    ELSE IF fnse = -1 THEN <<>>
    ELSE Slice(path, ComponentStart(path, seps, lo, fnse), fnse)
basename(path, suffix, win32) ==
    BasenameOf(path, suffix, Separators(win32), BasenameStart(path, win32),
               FirstNonSlashEnd(path, Separators(win32),
                                BasenameStart(path, win32)))

\* ------------------------------------------------------ semantic versions

\* 0|[1-9]\d*
IsNumericIdentifier(s) ==
    /\ s # <<>>
    /\ \A i \in 1..Len(s) : s[i] \in Digits
    /\ (Len(s) > 1 => s[1] # "0")

\* numeric identifier, or \d*[a-zA-Z-][a-zA-Z0-9-]*
IsPrereleaseIdentifier(s) ==
    /\ s # <<>>
    /\ \A i \in 1..Len(s) : s[i] \in Digits \cup Letters \cup {"-"}
    /\ ((\A i \in 1..Len(s) : s[i] \in Digits) => IsNumericIdentifier(s))

\* [a-zA-Z0-9-]+
IsBuildIdentifier(s) ==
    /\ s # <<>>
    /\ \A i \in 1..Len(s) : s[i] \in Digits \cup Letters \cup {"-"}

\* The part of s before the first c (all of s when there is none), and the
\* part after it (Null when there is none).
BeforeChar(s, c) ==
    IF IndexOfChar(s, c) = 0 THEN s ELSE SubSeq(s, 1, IndexOfChar(s, c) - 1)
AfterChar(s, c) ==
    IF IndexOfChar(s, c) = 0 THEN Null ELSE SubSeq(s, IndexOfChar(s, c) + 1, Len(s))
SplitOrNone(s, c) == IF s = Null THEN <<>> ELSE Split(s, c)

\* new SemVer(version) in strict mode: a record with valid = TRUE when version
\* matches  ^v?MAJOR.MINOR.PATCH(-PRE(.PRE)*)?(+BUILD(.BUILD)*)?$  after
\* trimming, valid = FALSE otherwise; a version longer than MAX_LENGTH (256)
\* or with a major, minor or patch number above Number.MAX_SAFE_INTEGER is not
\* valid.  Numbers are kept as their digit strings.
MAX_SAFE_INTEGER ==
    <<"9", "0", "0", "7", "1", "9", "9", "2", "5", "4", "7", "4", "0", "9", "9", "1">>
IsSafeInteger(digits) ==
    \/ Len(digits) < Len(MAX_SAFE_INTEGER)
    \/ /\ Len(digits) = Len(MAX_SAFE_INTEGER)
       /\ \A i \in 1..Len(digits) :
            (\A j \in 1..(i - 1) : digits[j] = MAX_SAFE_INTEGER[j]) =>
                Ord(digits[i]) <= Ord(MAX_SAFE_INTEGER[i])
ParseParts(nums, pre, build) ==
    IF /\ Len(nums) = 3
       /\ \A i \in 1..3 : IsNumericIdentifier(nums[i]) /\ IsSafeInteger(nums[i])
       /\ \A i \in 1..Len(pre) : IsPrereleaseIdentifier(pre[i])
       /\ \A i \in 1..Len(build) : IsBuildIdentifier(build[i])
    THEN [valid |-> TRUE, major |-> nums[1], minor |-> nums[2],
          patch |-> nums[3], prerelease |-> pre]
    ELSE [valid |-> FALSE, major |-> <<>>, minor |-> <<>>,
          patch |-> <<>>, prerelease |-> <<>>]
ParseCore(noBuild, build) ==
    ParseParts(Split(BeforeChar(noBuild, "-"), "."),
               SplitOrNone(AfterChar(noBuild, "-"), "."), build)
ParseUnprefixed(u) ==
    ParseCore(BeforeChar(u, "+"), SplitOrNone(AfterChar(u, "+"), "."))
StripOneV(t) == IF t # <<>> /\ Head(t) = "v" THEN Tail(t) ELSE t
semver_parse(version) ==
    IF Len(version) > 256
    THEN ParseParts(<<>>, <<>>, <<>>)
    ELSE ParseUnprefixed(StripOneV(Trim(version)))

\* SemVer.format(): major.minor.patch, then -pre when there is one; build
\* metadata is not part of it.
semver_format(v) ==
    v.major \o <<".">> \o v.minor \o <<".">> \o v.patch
      \o (IF v.prerelease = <<>> THEN <<>> ELSE <<"-">> \o Join(v.prerelease, "."))

\* semver.clean(version)
FormatParsed(p) == IF p.valid THEN semver_format(p) ELSE Null
semver_clean(version) == FormatParsed(semver_parse(StripEqV(Trim(version))))

\* Order of two strings by code units (a < b ? -1 : 1, 0 when equal).
RECURSIVE CompareStrings(_, _)
CompareStrings(a, b) ==
    IF a = <<>> /\ b = <<>> THEN 0
    ELSE IF a = <<>> THEN -1
    ELSE IF b = <<>> THEN 1
    ELSE IF Head(a) = Head(b) THEN CompareStrings(Tail(a), Tail(b))
    ELSE IF Ord(Head(a)) < Ord(Head(b)) THEN -1 ELSE 1

\* Numbers.  A numeric identifier is compared as the JavaScript number it
\* converts to (+a): the double nearest to the decimal, ties to even.  A
\* number is held as q * 2^e with q written in decimal: e = 0 and q the value
\* below 2^53, 2^52 <= q < 2^53 from there on; inf above the largest double.
DigitVal(c) == Ord(c) - 2
DigitOf(n) == AsciiOrder[n + 2]
RECURSIVE StripZeros(_)
StripZeros(d) == IF d # <<>> /\ Head(d) = "0" THEN StripZeros(Tail(d)) ELSE d
\* Exact order of two naturals written without leading zeros.
CompareDigits(a, b) ==
    IF Len(a) < Len(b) THEN -1
    ELSE IF Len(a) > Len(b) THEN 1
    ELSE CompareStrings(a, b)
\* d \div n and d % n for a small n, digit by digit.
RECURSIVE DivFrom(_, _, _)
DivFrom(d, n, carry) ==
    IF d = <<>> THEN <<>>
    ELSE <<DigitOf((carry * 10 + DigitVal(Head(d))) \div n)>>
           \o DivFrom(Tail(d), n, (carry * 10 + DigitVal(Head(d))) % n)
RECURSIVE ModFrom(_, _, _)
ModFrom(d, n, carry) ==
    IF d = <<>> THEN carry
    ELSE ModFrom(Tail(d), n, (carry * 10 + DigitVal(Head(d))) % n)
Remainder(d, n) == ModFrom(d, n, 0)
\* d + 1
RECURSIVE Increment(_)
Increment(d) ==
    IF d = <<>> THEN <<"1">>
    ELSE IF d[Len(d)] = "9" THEN Increment(SubSeq(d, 1, Len(d) - 1)) \o <<"0">>
    ELSE SubSeq(d, 1, Len(d) - 1) \o <<DigitOf(DigitVal(d[Len(d)]) + 1)>>
TwoTo52 ==
    <<"4", "5", "0", "3", "5", "9", "9", "6", "2", "7", "3", "7",
      "0", "4", "9", "6">>
TwoTo53 ==
    <<"9", "0", "0", "7", "1", "9", "9", "2", "5", "4", "7", "4",
      "0", "9", "9", "2">>
TwoTo69 ==
    <<"5", "9", "0", "2", "9", "5", "8", "1", "0", "3", "5", "8",
      "7", "0", "5", "6", "5", "1", "7", "1", "2">>
\* Drop low bits of d until it is below 2^53: sixteen (2^16 = 65536) at a
\* time while that leaves 2^53 or more, then one at a time.  guard is the
\* last bit dropped, sticky tells whether a bit dropped before it was set.
RECURSIVE Shift(_, _, _, _)
Shift(d, e, guard, sticky) ==
    IF CompareDigits(d, TwoTo53) = -1
    THEN [q |-> d, e |-> e, guard |-> guard, sticky |-> sticky]
    ELSE IF CompareDigits(d, TwoTo69) >= 0
    THEN Shift(StripZeros(DivFrom(d, 65536, 0)), e + 16, FALSE,
               sticky \/ guard \/ Remainder(d, 65536) # 0)
    ELSE Shift(StripZeros(DivFrom(d, 2, 0)), e + 1, Remainder(d, 2) = 1,
               sticky \/ guard)
\* Round to the nearest, a tie to the even q.
Round(s) ==
    IF s.guard /\ (s.sticky \/ Remainder(s.q, 2) = 1)
    THEN IF Increment(s.q) = TwoTo53 THEN [q |-> TwoTo52, e |-> s.e + 1]
         ELSE [q |-> Increment(s.q), e |-> s.e]
    ELSE [q |-> s.q, e |-> s.e]
\* Infinity from 2^1024 on; every number of more than 309 digits is above it.
Infinity == [inf |-> TRUE, q |-> <<>>, e |-> 0]
Finite(r) ==
    IF r.e > 971 THEN Infinity ELSE [inf |-> FALSE, q |-> r.q, e |-> r.e]
ToNumber(digits) ==
    IF Len(StripZeros(digits)) > 309 THEN Infinity
    ELSE Finite(Round(Shift(StripZeros(digits), 0, FALSE, FALSE)))
\* a === b ? 0 : a < b ? -1 : 1 on two numbers
CompareNumbers(x, y) ==
    IF x = y THEN 0
    ELSE IF x.inf THEN 1
    ELSE IF y.inf THEN -1
    ELSE IF x.e # y.e THEN (IF x.e < y.e THEN -1 ELSE 1)
    ELSE CompareDigits(x.q, y.q)
\* a || b on two results of a comparison: b is looked at when a is 0.
Or(a, b) == IF a # 0 THEN a ELSE b

\* compareIdentifiers(a, b); /^[0-9]+$/ tells the numeric identifiers.
AllDigits(a) == a # <<>> /\ \A i \in 1..Len(a) : a[i] \in Digits
compareIdentifiers(a, b) ==
    IF AllDigits(a) /\ AllDigits(b)
    THEN CompareNumbers(ToNumber(a), ToNumber(b))
    ELSE IF a = b THEN 0
    ELSE IF AllDigits(a) THEN -1
    ELSE IF AllDigits(b) THEN 1
    ELSE CompareStrings(a, b)

\* SemVer.compareMain
compareMain(a, b) ==
    Or(CompareNumbers(ToNumber(a.major), ToNumber(b.major)),
       Or(CompareNumbers(ToNumber(a.minor), ToNumber(b.minor)),
          CompareNumbers(ToNumber(a.patch), ToNumber(b.patch))))

\* SemVer.comparePre
RECURSIVE comparePreFrom(_, _)
comparePreFrom(a, b) ==
    IF a = <<>> /\ b = <<>> THEN 0
    ELSE IF b = <<>> THEN 1
    ELSE IF a = <<>> THEN -1
    ELSE IF Head(a) = Head(b) THEN comparePreFrom(Tail(a), Tail(b))
    ELSE compareIdentifiers(Head(a), Head(b))
comparePre(a, b) ==
    IF a.prerelease # <<>> /\ b.prerelease = <<>> THEN -1
    ELSE IF a.prerelease = <<>> /\ b.prerelease # <<>> THEN 1
    ELSE comparePreFrom(a.prerelease, b.prerelease)

\* semver.compare(a, b) on two valid version strings
SemVer_compare(x, y) == Or(compareMain(x, y), comparePre(x, y))
semver_compare(a, b) == SemVer_compare(semver_parse(a), semver_parse(b))

\* ------------------------------------------------------------- literals

S_stable == <<"s", "t", "a", "b", "l", "e">>
S_latest == <<"l", "a", "t", "e", "s", "t">>
S_linux == <<"l", "i", "n", "u", "x">>
S_macOS == <<"m", "a", "c", "O", "S">>
S_windows == <<"w", "i", "n", "d", "o", "w", "s">>
S_x64 == <<"x", "6", "4">>
S_arm64 == <<"a", "r", "m", "6", "4">>
S_amd64 == <<"a", "m", "d", "6", "4">>
S_zip == <<"z", "i", "p">>
S_targz == <<"t", "a", "r", ".", "g", "z">>
S_gh == <<"g", "h">>
S_ghexe == <<"g", "h", ".", "e", "x", "e">>
S_bin == <<"b", "i", "n">>
S_2_28_0 == <<"2", ".", "2", "8", ".", "0">>
\* What `${assetExtension}` gives in part_000, where assetExtension is a
\* function: the text of the function (its beginning stands for all of it).
S_functionText ==
    <<"f", "u", "n", "c", "t", "i", "o", "n", " ", "a", "s", "s", "e", "t",
      "E", "x", "t", "e", "n", "s", "i", "o", "n", "(">>

Variants == {"part_001", "part_000", "main_ts"}

\* --------------------------------------------------- platform descriptor

\* osPlat: Null stands for the throw of `Unsupported platform`.
osPlatOf(platform) ==
    CASE platform = "linux" -> S_linux
      [] platform = "darwin" -> S_macOS
      [] platform = "win32" -> S_windows
      [] OTHER -> Null

osArchOf(arch) == IF arch = S_x64 THEN S_amd64 ELSE arch

execNameOf(plat) == IF plat = S_windows THEN S_ghexe ELSE S_gh

\* cleanedVersion(version): Null stands for the throw of `Invalid version`.
\* (mutant: the string is returned as it is given)
cleanedVersion_Unchecked(version) == version
cleanedVersion(version) == semver_clean(version)

\* assetExtension(version) of part_001, version a cleaned version string.
assetExtension(plat, versionString) ==
    IF plat = S_windows THEN S_zip
    ELSE IF plat # S_macOS THEN S_targz
    ELSE IF semver_compare(versionString, S_2_28_0) = -1 THEN S_targz ELSE S_zip

\* assetExtension(version) of part_000: on macOS the version is cleaned again
\* first, Null stands for the throw of cleanedVersion.
assetExtension_part_000(plat, version) ==
    IF plat = S_windows THEN S_zip
    ELSE IF plat # S_macOS THEN S_targz
    ELSE IF cleanedVersion(version) = Null THEN Null
    ELSE IF semver_compare(cleanedVersion(version), S_2_28_0) = -1
         THEN S_targz ELSE S_zip

\* The constant assetExtension of main.ts.
assetExtension_main_ts(plat) == IF plat = S_windows THEN S_zip ELSE S_targz

\* The extension install() extracts by, in each revision.
InstallExtension(v, plat, versionString) ==
    CASE v = "part_001" -> assetExtension(plat, versionString)
      [] v = "part_000" -> assetExtension_part_000(plat, versionString)
      [] OTHER -> assetExtension_main_ts(plat)

\* What the asset name's template interpolates after the dot.
NameExtension(v, plat, versionString) ==
    CASE v = "part_001" -> assetExtension(plat, versionString)
      [] v = "part_000" -> S_functionText
      [] OTHER -> assetExtension_main_ts(plat)

\* `gh_${version}_${osPlat}_${osArch}.${extension}`
AssetNameOf(versionString, plat, arch, ext) ==
    <<"g", "h", "_">> \o versionString \o <<"_">> \o plat \o <<"_">> \o arch
      \o <<".">> \o ext

assetName(v, plat, arch, versionString) ==
    AssetNameOf(versionString, plat, arch, NameExtension(v, plat, versionString))

\* ------------------------------------------------------ version specifier

isStable(inputVersion) == inputVersion = S_stable
isLatest(inputVersion) == inputVersion = S_latest

\* new RequestedVersion(inputVersion); threw stands for the constructor's
\* throw of `Invalid version`.
RequestedVersion(inputVersion) ==
    IF isStable(inputVersion) \/ isLatest(inputVersion)
    THEN [inputVersion |-> inputVersion, semverVersion |-> Null, threw |-> FALSE]
    ELSE [inputVersion |-> inputVersion,
          semverVersion |-> cleanedVersion(inputVersion),
          threw |-> cleanedVersion(inputVersion) = Null]

\* get cleanedVersion (part_001) and the guard of get tagName (part_000,
\* main.ts): Null stands for the throw.
RequestedVersion_cleanedVersion(rv) ==
    IF isStable(rv.inputVersion) \/ isLatest(rv.inputVersion) \/ rv.semverVersion = Null
    THEN Null ELSE rv.semverVersion

\* get tagName: `v${...}`, Null for the throw.
\* (mutant: the input is used in place of the cleaned version)
RequestedVersion_tagName_Raw(rv) ==
    IF RequestedVersion_cleanedVersion(rv) = Null THEN Null ELSE rv.inputVersion
RequestedVersion_tagName(rv) ==
    IF RequestedVersion_cleanedVersion(rv) = Null THEN Null
    ELSE <<"v">> \o RequestedVersion_cleanedVersion(rv)

\* ------------------------------------------------------- release resolver

Err(kind, arg) == [kind |-> kind, arg |-> arg]

\* releases.filter(r => !!semver_clean(r.tag_name)); in part_001 the forEach
\* whose try/catch drops the tags cleanedVersion throws on.
IsVersion(r) == semver_clean(r.tag_name) # Null
FilterValid(data) == SelectSeq(data, IsVersion)

\* The comparator given to sort: (l, r) => semver_compare(r, l).
ReleaseOrder(l, r) ==
    semver_compare(semver_clean(r.tag_name), semver_clean(l.tag_name))

\* Array.prototype.sort of V8 (ArrayTimSortImpl and its callees); order is
\* the comparator given to it (sortState.sortComparefn).  The array is cut into runs: a run is counted where the array
\* goes on (and reversed when it is strictly descending) and, when shorter
\* than the minimal run length, extended by a binary insertion sort; the
\* pending runs are merged as the run invariants ask, and all of them at the
\* end.  Below 64 elements the minimal run length is the length of the
\* array, so that one run is all.  Indices count from 0 as in the source.
kMinGallopWins == 7
Min(a, b) == IF a < b THEN a ELSE b
RECURSIVE ComputeMinRunLength(_, _)
ComputeMinRunLength(n, r) ==
    IF n >= 64
    THEN ComputeMinRunLength(n \div 2, IF n % 2 = 1 THEN 1 ELSE r)
    ELSE n + r
\* ReverseRange(array, from, to): array[from..to) reversed.
ReverseRange(array, from, to) ==
    SubSeq(array, 1, from) \o [i \in 1..(to - from) |-> array[to + 1 - i]]
      \o SubSeq(array, to + 1, Len(array))
\* Copy(source, srcPos, target, dstPos, length): target with length elements
\* of source, from srcPos on, at dstPos; the ranges may overlap.
Copy(source, srcPos, target, dstPos, length) ==
    SubSeq(target, 1, dstPos) \o SubSeq(source, srcPos + 1, srcPos + length)
      \o SubSeq(target, dstPos + length + 1, Len(target))
\* The loop of CountAndMakeRun over idx in [from, to), run in halves: the
\* first idx at which the run ends, high when there is none.
First(end, next, high) == IF end < high THEN end ELSE next
RECURSIVE RunEnd(_, _, _, _, _, _)
RunEnd(order, array, descending, from, to, high) ==
    IF from >= to THEN high
    ELSE IF from + 1 = to
    THEN IF (order[array[from + 1], array[from]] < 0) = descending
         THEN high ELSE from
    ELSE First(RunEnd(order, array, descending,
                      from, from + (to - from) \div 2, high),
               RunEnd(order, array, descending,
                      from + (to - from) \div 2, to, high),
               high)
\* The run array[lowArg..end), reversed when it is descending.
MakeRun(array, lowArg, descending, end) ==
    [runLength |-> end - lowArg,
     array |-> IF descending THEN ReverseRange(array, lowArg, end) ELSE array]
\* CountAndMakeRun(lowArg, high): the run is descending when order < 0 for
\* its first two elements.
CountRun(order, array, lowArg, high, descending) ==
    MakeRun(array, lowArg, descending,
            RunEnd(order, array, descending, lowArg + 2, high, high))
CountAndMakeRun(order, array, lowArg, high) ==
    IF lowArg + 1 = high THEN [runLength |-> 1, array |-> array]
    ELSE CountRun(order, array, lowArg, high,
                  order[array[lowArg + 2], array[lowArg + 1]] < 0)
\* The binary search of BinaryInsertionSort: where pivot goes in
\* array[left..right): order < 0 ? right = mid : left = mid + 1.
RECURSIVE BinarySearch(_, _, _, _, _)
BinarySearch(order, array, pivot, left, right) ==
    IF left >= right THEN left
    ELSE IF order[pivot, array[left + ((right - left) \div 2) + 1]] < 0
    THEN BinarySearch(order, array, pivot,
                      left, left + ((right - left) \div 2))
    ELSE BinarySearch(order, array, pivot,
                      left + ((right - left) \div 2) + 1, right)
\* One step of BinaryInsertionSort: array[start] is moved to left, its place
\* in the sorted array[low..start).
InsertRelease(array, start, left) ==
    SubSeq(array, 1, left) \o <<array[start + 1]>>
      \o SubSeq(array, left + 1, start) \o SubSeq(array, start + 2, Len(array))
\* BinaryInsertionSort(low, startArg, high): array[low..start) is sorted;
\* s holds the array and start, the variable of the loop
\* for (; start < high; ++start).  (The source begins at low + 1 when
\* startArg is low; the step for start = low compares nothing and moves
\* nothing.)  n steps of the loop are run in halves.
InsertionStep(order, s, low) ==
    [array |-> InsertRelease(s.array, s.start,
                             BinarySearch(order, s.array,
                                          s.array[s.start + 1], low, s.start)),
     start |-> s.start + 1]
RECURSIVE InsertionSteps(_, _, _, _, _)
InsertionSteps(order, s, low, high, n) ==
    IF s.start >= high THEN s
    ELSE IF n = 1 THEN InsertionStep(order, s, low)
    ELSE InsertionSteps(order, InsertionSteps(order, s, low, high, n \div 2),
                        low, high, n - n \div 2)
BinaryInsertionSort(order, array, low, start, high) ==
    IF start >= high THEN array
    ELSE InsertionSteps(order, [array |-> array, start |-> start],
                        low, high, high - start).array

\* GallopLeft and GallopRight look for the place of key in the sorted
\* a[base..base + length), beginning at hint: GallopLeft for the place
\* before the elements that compare equal to key (an element is before the
\* place when order(element, key) < 0), GallopRight for the place after them
\* (when order(key, element) >= 0).
Precedes(order, element, key, right) ==
    IF right THEN ~(order[key, element] < 0)
    ELSE order[element, key] < 0
\* The binary search that ends both: the place is in (lastOfs - 1, offset].
RECURSIVE GallopSearch(_, _, _, _, _, _, _)
GallopSearch(order, a, key, base, right, lastOfs, offset) ==
    IF lastOfs >= offset THEN offset
    ELSE IF Precedes(order,
                     a[base + lastOfs + ((offset - lastOfs) \div 2) + 1],
                     key, right)
    THEN GallopSearch(order, a, key, base, right,
                      lastOfs + ((offset - lastOfs) \div 2) + 1, offset)
    ELSE GallopSearch(order, a, key, base, right,
                      lastOfs, lastOfs + ((offset - lastOfs) \div 2))
\* The galloping loop, to the right of hint when a[hint] is before the place
\* (forward), to the left otherwise: offset = (offset << 1) + 1 until the
\* place is between hint -+ lastOfs and hint -+ offset, or maxOfs is passed.
RECURSIVE Gallop(_, _, _, _, _, _, _, _, _, _)
Gallop(order, a, key, base, length, hint, right, forward, lastOfs, offset) ==
    IF forward
    THEN IF /\ offset < length - hint
            /\ Precedes(order, a[base + hint + offset + 1], key, right)
         THEN Gallop(order, a, key, base, length, hint, right, forward,
                     offset, 2 * offset + 1)
         ELSE GallopSearch(order, a, key, base, right, lastOfs + hint + 1,
                           Min(offset, length - hint) + hint)
    ELSE IF /\ offset < hint + 1
            /\ ~Precedes(order, a[base + hint - offset + 1], key, right)
         THEN Gallop(order, a, key, base, length, hint, right, forward,
                     offset, 2 * offset + 1)
         ELSE GallopSearch(order, a, key, base, right,
                           hint - Min(offset, hint + 1) + 1, hint - lastOfs)
GallopLeft(order, a, key, base, length, hint) ==
    Gallop(order, a, key, base, length, hint, FALSE,
           Precedes(order, a[base + hint + 1], key, FALSE), 0, 1)
GallopRight(order, a, key, base, length, hint) ==
    Gallop(order, a, key, base, length, hint, TRUE,
           Precedes(order, a[base + hint + 1], key, TRUE), 0, 1)

\* MergeLow(baseA, lengthA, baseB, lengthB) merges the adjacent runs A and B
\* from the left, run A being in tempArray (t).  m holds its variables (w:
\* the work array; la, lb: lengthA, lengthB; na, nb: nofWinsA, nofWinsB; mg:
\* the local minGallop; minGallop: that of the sort state) and, in at, where
\* it goes on; a step takes it to the next such place, "done" being the end.
MergeLowStep(order, m) ==
    CASE m.at = "start" ->
           \* if (--lengthB == 0) goto Succeed; if (lengthA == 1) goto CopyB
           [m EXCEPT !.at = IF m.lb = 0 THEN "Succeed"
                            ELSE IF m.la = 1 THEN "CopyB" ELSE "one"]
      [] m.at = "one" ->
           \* the straightforward loop, one element at a time
           IF order[m.w[m.cursorB + 1], m.t[m.cursorTemp + 1]] < 0
           THEN [m EXCEPT !.w[m.dest + 1] = m.w[m.cursorB + 1],
                          !.dest = @ + 1, !.cursorB = @ + 1,
                          !.nb = @ + 1, !.lb = @ - 1, !.na = 0,
                          !.at = IF m.lb = 1 THEN "Succeed"
                                 ELSE IF m.nb + 1 >= m.mg THEN "break"
                                 ELSE "one"]
           ELSE [m EXCEPT !.w[m.dest + 1] = m.t[m.cursorTemp + 1],
                          !.dest = @ + 1, !.cursorTemp = @ + 1,
                          !.na = @ + 1, !.la = @ - 1, !.nb = 0,
                          !.at = IF m.la = 2 THEN "CopyB"
                                 ELSE IF m.na + 1 >= m.mg THEN "break"
                                 ELSE "one"]
      [] m.at = "break" ->
           \* ++minGallop, then the galloping loop (firstIteration)
           [m EXCEPT !.mg = @ + 1, !.at = "gallopA"]
      [] m.at = "gallopA" ->
           \* minGallop = max(1, minGallop - 1), stored in the sort state;
           \* nofWinsA = GallopRight(tempArray, workArray[cursorB], ...)
           [m EXCEPT !.mg = IF @ > 2 THEN @ - 1 ELSE 1,
                     !.minGallop = IF m.mg > 2 THEN m.mg - 1 ELSE 1,
                     !.na = GallopRight(order, m.t, m.w[m.cursorB + 1],
                                        m.cursorTemp, m.la, 0),
                     !.at = "copyA"]
      [] m.at = "copyA" ->
           IF m.na > 0
           THEN [m EXCEPT !.w = Copy(m.t, m.cursorTemp, m.w, m.dest, m.na),
                          !.dest = @ + m.na, !.cursorTemp = @ + m.na,
                          !.la = @ - m.na,
                          !.at = IF m.la - m.na = 1 THEN "CopyB"
                                 ELSE IF m.la - m.na = 0 THEN "Succeed"
                                 ELSE "takeB"]
           ELSE [m EXCEPT !.at = "takeB"]
      [] m.at = "takeB" ->
           \* workArray[dest++] = workArray[cursorB++]; --lengthB
           [m EXCEPT !.w[m.dest + 1] = m.w[m.cursorB + 1],
                     !.dest = @ + 1, !.cursorB = @ + 1, !.lb = @ - 1,
                     !.at = IF m.lb = 1 THEN "Succeed" ELSE "gallopB"]
      [] m.at = "gallopB" ->
           \* nofWinsB = GallopLeft(workArray, tempArray[cursorTemp], ...)
           [m EXCEPT !.nb = GallopLeft(order, m.w, m.t[m.cursorTemp + 1],
                                       m.cursorB, m.lb, 0),
                     !.at = "copyB"]
      [] m.at = "copyB" ->
           IF m.nb > 0
           THEN [m EXCEPT !.w = Copy(m.w, m.cursorB, m.w, m.dest, m.nb),
                          !.dest = @ + m.nb, !.cursorB = @ + m.nb,
                          !.lb = @ - m.nb,
                          !.at = IF m.lb - m.nb = 0 THEN "Succeed"
                                 ELSE "takeA"]
           ELSE [m EXCEPT !.at = "takeA"]
      [] m.at = "takeA" ->
           \* workArray[dest++] = tempArray[cursorTemp++]; --lengthA; then
           \* the condition of the galloping loop; when it ends, ++minGallop
           \* is stored in the sort state
           IF m.la = 2 \/ m.na >= kMinGallopWins \/ m.nb >= kMinGallopWins
           THEN [m EXCEPT !.w[m.dest + 1] = m.t[m.cursorTemp + 1],
                          !.dest = @ + 1, !.cursorTemp = @ + 1, !.la = @ - 1,
                          !.at = IF m.la = 2 THEN "CopyB" ELSE "gallopA"]
           ELSE [m EXCEPT !.w[m.dest + 1] = m.t[m.cursorTemp + 1],
                          !.dest = @ + 1, !.cursorTemp = @ + 1, !.la = @ - 1,
                          !.na = 0, !.nb = 0,
                          !.mg = @ + 1, !.minGallop = m.mg + 1, !.at = "one"]
      [] m.at = "Succeed" ->
           [m EXCEPT !.w = IF m.la > 0
                           THEN Copy(m.t, m.cursorTemp, m.w, m.dest, m.la)
                           ELSE m.w,
                     !.at = "done"]
      [] m.at = "CopyB" ->
           \* The last element of run A belongs at the end of the merge.
           [m EXCEPT !.w = [Copy(m.w, m.cursorB, m.w, m.dest, m.lb)
                              EXCEPT ![m.dest + m.lb + 1] =
                                        m.t[m.cursorTemp + 1]],
                     !.at = "done"]
\* MergeHigh(baseA, lengthA, baseB, lengthB) merges them from the right, run
\* B being in tempArray.
MergeHighStep(order, m) ==
    CASE m.at = "start" ->
           \* if (--lengthA == 0) goto Succeed; if (lengthB == 1) goto CopyA
           [m EXCEPT !.at = IF m.la = 0 THEN "Succeed"
                            ELSE IF m.lb = 1 THEN "CopyA" ELSE "one"]
      [] m.at = "one" ->
           IF order[m.t[m.cursorTemp + 1], m.w[m.cursorA + 1]] < 0
           THEN [m EXCEPT !.w[m.dest + 1] = m.w[m.cursorA + 1],
                          !.dest = @ - 1, !.cursorA = @ - 1,
                          !.na = @ + 1, !.la = @ - 1, !.nb = 0,
                          !.at = IF m.la = 1 THEN "Succeed"
                                 ELSE IF m.na + 1 >= m.mg THEN "break"
                                 ELSE "one"]
           ELSE [m EXCEPT !.w[m.dest + 1] = m.t[m.cursorTemp + 1],
                          !.dest = @ - 1, !.cursorTemp = @ - 1,
                          !.nb = @ + 1, !.lb = @ - 1, !.na = 0,
                          !.at = IF m.lb = 2 THEN "CopyA"
                                 ELSE IF m.nb + 1 >= m.mg THEN "break"
                                 ELSE "one"]
      [] m.at = "break" ->
           [m EXCEPT !.mg = @ + 1, !.at = "gallopA"]
      [] m.at = "gallopA" ->
           \* nofWinsA = lengthA - GallopRight(workArray,
           \*   tempArray[cursorTemp], baseA, lengthA, lengthA - 1)
           [m EXCEPT !.mg = IF @ > 2 THEN @ - 1 ELSE 1,
                     !.minGallop = IF m.mg > 2 THEN m.mg - 1 ELSE 1,
                     !.na = m.la - GallopRight(order, m.w,
                                               m.t[m.cursorTemp + 1],
                                               m.baseA, m.la, m.la - 1),
                     !.at = "copyA"]
      [] m.at = "copyA" ->
           IF m.na > 0
           THEN [m EXCEPT !.w = Copy(m.w, m.cursorA - m.na + 1, m.w,
                                     m.dest - m.na + 1, m.na),
                          !.dest = @ - m.na, !.cursorA = @ - m.na,
                          !.la = @ - m.na,
                          !.at = IF m.la - m.na = 0 THEN "Succeed"
                                 ELSE "takeB"]
           ELSE [m EXCEPT !.at = "takeB"]
      [] m.at = "takeB" ->
           \* workArray[dest--] = tempArray[cursorTemp--]; --lengthB
           [m EXCEPT !.w[m.dest + 1] = m.t[m.cursorTemp + 1],
                     !.dest = @ - 1, !.cursorTemp = @ - 1, !.lb = @ - 1,
                     !.at = IF m.lb = 2 THEN "CopyA" ELSE "gallopB"]
      [] m.at = "gallopB" ->
           \* nofWinsB = lengthB - GallopLeft(tempArray, workArray[cursorA],
           \*   0, lengthB, lengthB - 1)
           [m EXCEPT !.nb = m.lb - GallopLeft(order, m.t, m.w[m.cursorA + 1],
                                              0, m.lb, m.lb - 1),
                     !.at = "copyB"]
      [] m.at = "copyB" ->
           IF m.nb > 0
           THEN [m EXCEPT !.w = Copy(m.t, m.cursorTemp - m.nb + 1, m.w,
                                     m.dest - m.nb + 1, m.nb),
                          !.dest = @ - m.nb, !.cursorTemp = @ - m.nb,
                          !.lb = @ - m.nb,
                          !.at = IF m.lb - m.nb = 1 THEN "CopyA"
                                 ELSE IF m.lb - m.nb = 0 THEN "Succeed"
                                 ELSE "takeA"]
           ELSE [m EXCEPT !.at = "takeA"]
      [] m.at = "takeA" ->
           \* workArray[dest--] = workArray[cursorA--]; --lengthA; then the
           \* condition of the galloping loop; when it ends, ++minGallop is
           \* stored in the sort state
           IF m.la = 1 \/ m.na >= kMinGallopWins \/ m.nb >= kMinGallopWins
           THEN [m EXCEPT !.w[m.dest + 1] = m.w[m.cursorA + 1],
                          !.dest = @ - 1, !.cursorA = @ - 1, !.la = @ - 1,
                          !.at = IF m.la = 1 THEN "Succeed" ELSE "gallopA"]
           ELSE [m EXCEPT !.w[m.dest + 1] = m.w[m.cursorA + 1],
                          !.dest = @ - 1, !.cursorA = @ - 1, !.la = @ - 1,
                          !.na = 0, !.nb = 0,
                          !.mg = @ + 1, !.minGallop = m.mg + 1, !.at = "one"]
      [] m.at = "Succeed" ->
           [m EXCEPT !.w = IF m.lb > 0
                           THEN Copy(m.t, 0, m.w, m.dest - (m.lb - 1), m.lb)
                           ELSE m.w,
                     !.at = "done"]
      [] m.at = "CopyA" ->
           \* The first element of run B belongs at the front of the merge.
           [m EXCEPT !.w = [Copy(m.w, m.cursorA - m.la + 1, m.w,
                                 m.dest - m.la + 1, m.la)
                              EXCEPT ![m.dest - m.la + 1] =
                                        m.t[m.cursorTemp + 1]],
                     !.at = "done"]
\* n steps of a merge, run in halves, and the merge to its end.
RECURSIVE MergeSteps(_, _, _)
MergeSteps(order, m, n) ==
    IF m.at = "done" THEN m
    ELSE IF n = 1
    THEN IF m.high THEN MergeHighStep(order, m) ELSE MergeLowStep(order, m)
    ELSE MergeSteps(order, MergeSteps(order, m, n \div 2), n - n \div 2)
RECURSIVE MergeLoop(_, _, _)
MergeLoop(order, m, n) ==
    IF m.at = "done" THEN m
    ELSE MergeLoop(order, MergeSteps(order, m, n), 2 * n)
MergeLow(order, s, baseA, lengthA, baseB, lengthB) ==
    MergeLoop(
      order,
      [w |-> [s.workArray EXCEPT ![baseA + 1] = s.workArray[baseB + 1]],
       t |-> SubSeq(s.workArray, baseA + 1, baseA + lengthA),
       high |-> FALSE, baseA |-> baseA,
       dest |-> baseA + 1, cursorTemp |-> 0, cursorB |-> baseB + 1,
       la |-> lengthA, lb |-> lengthB - 1, na |-> 0, nb |-> 0,
       mg |-> s.minGallop, minGallop |-> s.minGallop, at |-> "start"],
      16)
MergeHigh(order, s, baseA, lengthA, baseB, lengthB) ==
    MergeLoop(
      order,
      [w |-> [s.workArray EXCEPT ![baseB + lengthB] =
                                   s.workArray[baseA + lengthA]],
       t |-> SubSeq(s.workArray, baseB + 1, baseB + lengthB),
       high |-> TRUE, baseA |-> baseA, dest |-> baseB + lengthB - 2,
       cursorTemp |-> lengthB - 1, cursorA |-> baseA + lengthA - 2,
       la |-> lengthA - 1, lb |-> lengthB, na |-> 0, nb |-> 0,
       mg |-> s.minGallop, minGallop |-> s.minGallop, at |-> "start"],
      16)

\* MergeAt(i) merges the pending runs i and i + 1: the elements of A that
\* are before the first of B, and those of B after the last of A, stay.
Merged(s, m) == [s EXCEPT !.workArray = m.w, !.minGallop = m.minGallop]
MergeRest(order, s, baseA, lengthA, baseB, lengthB) ==
    IF lengthB = 0 THEN s
    ELSE IF lengthA <= lengthB
    THEN Merged(s, MergeLow(order, s, baseA, lengthA, baseB, lengthB))
    ELSE Merged(s, MergeHigh(order, s, baseA, lengthA, baseB, lengthB))
MergeFrom(order, s, baseA, lengthA, baseB, lengthB, k) ==
    IF lengthA - k = 0 THEN s
    ELSE MergeRest(order, s, baseA + k, lengthA - k, baseB,
                   GallopLeft(order, s.workArray,
                              s.workArray[baseA + lengthA],
                              baseB, lengthB, lengthB - 1))
MergeAt(order, s, i) ==
    MergeFrom(order,
              [s EXCEPT !.pendingRuns =
                 SubSeq(@, 1, i)
                   \o <<[base |-> @[i + 1].base,
                         length |-> @[i + 1].length + @[i + 2].length]>>
                   \o SubSeq(@, i + 3, Len(@))],
              s.pendingRuns[i + 1].base, s.pendingRuns[i + 1].length,
              s.pendingRuns[i + 2].base, s.pendingRuns[i + 2].length,
              GallopRight(order, s.workArray,
                          s.workArray[s.pendingRuns[i + 2].base + 1],
                          s.pendingRuns[i + 1].base,
                          s.pendingRuns[i + 1].length, 0))
\* run_length(n - 2) > run_length(n - 1) + run_length(n)
RunInvariantEstablished(pendingRuns, n) ==
    \/ n < 2
    \/ pendingRuns[n - 1].length
         > pendingRuns[n].length + pendingRuns[n + 1].length
RECURSIVE MergeCollapse(_, _)
MergeCollapse(order, s) ==
    IF Len(s.pendingRuns) <= 1 THEN s
    ELSE IF \/ ~RunInvariantEstablished(s.pendingRuns,
                                        Len(s.pendingRuns) - 1)
            \/ ~RunInvariantEstablished(s.pendingRuns,
                                        Len(s.pendingRuns) - 2)
    THEN MergeCollapse(
           order,
           MergeAt(order, s,
                   IF s.pendingRuns[Len(s.pendingRuns) - 2].length
                        < s.pendingRuns[Len(s.pendingRuns)].length
                   THEN Len(s.pendingRuns) - 3
                   ELSE Len(s.pendingRuns) - 2))
    ELSE IF s.pendingRuns[Len(s.pendingRuns) - 1].length
              <= s.pendingRuns[Len(s.pendingRuns)].length
    THEN MergeCollapse(order, MergeAt(order, s, Len(s.pendingRuns) - 2))
    ELSE s
RECURSIVE MergeForceCollapse(_, _)
MergeForceCollapse(order, s) ==
    IF Len(s.pendingRuns) <= 1 THEN s
    ELSE IF /\ Len(s.pendingRuns) > 2
            /\ s.pendingRuns[Len(s.pendingRuns) - 2].length
                 < s.pendingRuns[Len(s.pendingRuns)].length
    THEN MergeForceCollapse(order, MergeAt(order, s, Len(s.pendingRuns) - 3))
    ELSE MergeForceCollapse(order, MergeAt(order, s, Len(s.pendingRuns) - 2))
\* The run that is pushed: a run shorter than minRunLength is extended to
\* min(minRunLength, remaining) by BinaryInsertionSort.
ExtendRun(order, run, low, minRunLength, remaining) ==
    IF run.runLength < minRunLength
    THEN [runLength |-> Min(minRunLength, remaining),
          array |-> BinaryInsertionSort(order, run.array,
                                        low, low + run.runLength,
                                        low + Min(minRunLength, remaining))]
    ELSE run
\* The loop of ArrayTimSortImpl (low and remaining are kept with the sort
\* state), and what it does with a run.
PushRun(order, s, run) ==
    MergeCollapse(order,
                  [s EXCEPT !.workArray = run.array,
                            !.pendingRuns =
                               Append(@, [base |-> s.low,
                                          length |-> run.runLength]),
                            !.low = @ + run.runLength,
                            !.remaining = @ - run.runLength])
RECURSIVE ArrayTimSortImpl(_, _, _)
ArrayTimSortImpl(order, s, minRunLength) ==
    IF s.remaining = 0 THEN MergeForceCollapse(order, s)
    ELSE ArrayTimSortImpl(
           order,
           PushRun(order, s,
                   ExtendRun(order,
                             CountAndMakeRun(order, s.workArray, s.low,
                                             s.low + s.remaining),
                             s.low, minRunLength, s.remaining)),
           minRunLength)
\* The comparator as sort is given it: a function of two releases of the
\* array.
sortComparefn(releases) ==
    [l \in {releases[i] : i \in DOMAIN releases},
     r \in {releases[i] : i \in DOMAIN releases} |-> ReleaseOrder(l, r)]
SortReleases(data) ==
    IF Len(data) < 2 THEN data
    ELSE ArrayTimSortImpl(
           sortComparefn(data),
           [workArray |-> data, minGallop |-> kMinGallopWins,
            pendingRuns |-> <<>>, low |-> 0, remaining |-> Len(data)],
           ComputeMinRunLength(Len(data), 0)).workArray

\* The registry operation findMatchingRelease calls for a specifier.
RegistryCall(rv) ==
    IF isStable(rv.inputVersion) THEN "getLatestRelease"
    ELSE IF isLatest(rv.inputVersion) THEN "listReleases"
    ELSE "getReleaseByTag"

ToRelease(r) ==
    [tag_name |-> r.tag_name, version |-> cleanedVersion(r.tag_name),
     assets |-> r.assets]

\* findMatchingRelease(version, token) of revision v on the registry's answer
\* resp ([ok, data]: data the releases answered, one for the two
\* single-release calls).  threw holds the error thrown, release the release
\* returned.  part_001 cleans the tag of the single release and throws on a
\* tag that is no version; the older revisions return the release as it is
\* (its version is then Null, the throw comes in checkCache).
findMatchingRelease(v, rv, resp) ==
    IF ~resp.ok
    THEN [threw |-> <<Err("RegistryFailure", <<>>)>>, release |-> <<>>]
    ELSE IF isLatest(rv.inputVersion)
    THEN IF FilterValid(resp.data) = <<>>
         THEN [threw |-> <<Err("NoMatchingRelease", <<>>)>>, release |-> <<>>]
         ELSE [threw |-> <<>>,
               release |-> <<ToRelease(Head(SortReleases(FilterValid(resp.data))))>>]
    ELSE IF v = "part_001" /\ cleanedVersion(resp.data[1].tag_name) = Null
    THEN [threw |-> <<Err("InvalidVersion", resp.data[1].tag_name)>>,
          release |-> <<>>]
    ELSE [threw |-> <<>>, release |-> <<ToRelease(resp.data[1])>>]

\* ------------------------------------------------------------ tool cache

toolName == <<"g", "h", "-", "c", "l", "i">>

\* The tool cache is the set of the directories it holds complete; the
\* directory of (tool, version, arch), below the cache's root:
\* path.join(root, tool, semver.clean(version) || version, arch).
CleanOrSame(versionString) ==
    IF semver_clean(versionString) = Null THEN versionString
    ELSE semver_clean(versionString)
CachePath(tool, versionString, a) == <<tool, CleanOrSame(versionString), a>>

\* tools.find(tool, versionSpec) for an explicit version (the program passes
\* cleaned versions only); the arch is os.arch().  <<>> for ''.
tools_find(cache, tool, versionSpec, a) ==
    IF CachePath(tool, versionSpec, a) \in cache
    THEN CachePath(tool, versionSpec, a) ELSE <<>>

\* tools.cacheDir(sourceDir, tool, version, arch): the cache afterwards.
tools_cacheDir(cache, tool, versionString, a) ==
    cache \cup {CachePath(tool, versionString, a)}

\* checkCache(version): tools.find(toolName, version); <<>> for null.  a is
\* os.arch().
\* (mutant: the lookup never finds anything)
checkCache_NeverFound(cache, versionString, a) == <<>>
checkCache(cache, versionString, a) ==
    IF tools_find(cache, toolName, versionString, a) = <<>>
    THEN <<>>
    ELSE <<[version |-> versionString,
            path |-> tools_find(cache, toolName, versionString, a)]>>

\* -------------------------------------------------------------- installer

\* fs.readdirSync(extractedPath) in an extracted tree: path <<>> is the
\* extraction root, <<d>> the directory d in it; tree.sub gives the contents
\* of the root's directories.
PathExists(tree, path) ==
    IF path = <<>> THEN TRUE ELSE path[1] \in DOMAIN tree.sub
readdir(tree, path) == IF path = <<>> THEN tree.root ELSE tree.sub[path[1]]

\* install() of part_001 from the reading of the extraction root on:
\* the directory to register, or threw.
CheckBin(tree, path) ==
    IF ~PathExists(tree, path)
    \* readdirSync of an entry that is no directory throws
    THEN [threw |-> <<Err("FsError", <<>>)>>, path |-> path]
    ELSE IF S_bin \notin readdir(tree, path)
    THEN [threw |-> <<Err("NoExecutableFound", <<>>)>>, path |-> path]
    ELSE [threw |-> <<>>, path |-> path]
DescendInto(tree, base) ==
    IF S_bin \notin readdir(tree, <<>>) /\ base \in readdir(tree, <<>>)
    THEN CheckBin(tree, <<base>>) ELSE CheckBin(tree, <<>>)
LocateBin(tree, name, extension, win32) ==
    DescendInto(tree, basename(name, <<".">> \o extension, win32))

\* install() of part_000 and main.ts: the root of a zip, the directory named
\* after the asset of a tar archive; nothing is read.
LocateOld(tree, name, extension, win32) ==
    IF extension = S_zip THEN [threw |-> <<>>, path |-> <<>>]
    ELSE [threw |-> <<>>,
          path |-> <<basename(name, <<".">> \o extension, win32)>>]

Locate(v, tree, name, extension, win32) ==
    IF v = "part_001" THEN LocateBin(tree, name, extension, win32)
    ELSE LocateOld(tree, name, extension, win32)

\* versionOutput.stdout.indexOf(version) < 0 is false
\* (mutant: the output is not looked at)
VersionFound_Unchecked(stdout, versionString) == TRUE
VersionFound(stdout, versionString) == Contains(stdout, versionString)

\* ------------------------------------------------- the program's environment

S_v == <<"v">>
V_1_2_3 == <<"1", ".", "2", ".", "3">>
V_1_9_9 == <<"1", ".", "9", ".", "9">>
V_2_0_0 == <<"2", ".", "0", ".", "0">>
V_2_0_0_rc1 == <<"2", ".", "0", ".", "0", "-", "r", "c", "1">>
V_2_27_9 == <<"2", ".", "2", "7", ".", "9">>
S_notAVersion ==
    <<"n", "o", "t", "-", "a", "-", "v", "e", "r", "s", "i", "o", "n">>
S_1_2 == <<"1", ".", "2">>
\* '1.2.3' with the line feed a YAML block scalar leaves, and a blank value.
S_1_2_3_nl == <<"1", ".", "2", ".", "3", "\n">>
\* '1.2.3' followed by a no-break space (U+00A0).
S_1_2_3_nbsp == <<"1", ".", "2", ".", "3", " ">>
S_blank == <<" ", " ">>

\* Values of the `version` input.
InputPool ==
    {S_stable, S_latest, V_1_2_3, S_v \o V_1_2_3, S_1_2_3_nl, S_1_2_3_nbsp,
     S_1_2, S_blank, <<>>}

\* os.platform() and os.arch() of the runner.
PlatformPool == {"linux", "darwin", "win32", "freebsd"}
ArchPool == {S_x64, S_arm64}
\* The runners: x64 on every platform, arm64 on macOS.
RunnerPool ==
    {r \in PlatformPool \X ArchPool : r[2] = S_arm64 => r[1] = "darwin"}

\* What the tool cache may hold before the first run, on a runner of arch a:
\* nothing, or two versions of gh-cli where tools.find looks for them.
InitialCachePool(a) ==
    {{}, {CachePath(toolName, V_1_2_3, a), CachePath(toolName, S_2_28_0, a)}}

\* Tags of the registry's releases.
TagPool ==
    {S_v \o V_2_0_0, S_notAVersion, S_v \o V_1_9_9}
StableTagPool ==
    {S_v \o V_2_27_9, S_v \o S_2_28_0, S_notAVersion}

\* The assets the registry carries for a tag.  "standard": one archive per
\* platform and architecture, packaged as the gh project packages them;
\* "linuxOnly": the linux archives alone; a release of any other style
\* ("none") carries no asset.
AssetStyles == {"standard", "linuxOnly"}
RegistryPackaging(plat, versionString) ==
    IF plat = S_windows THEN S_zip
    ELSE IF plat = S_linux THEN S_targz
    ELSE IF semver_compare(versionString, S_2_28_0) = -1 THEN S_targz ELSE S_zip
PackagedAssets(ver, plat, ext) ==
    <<AssetNameOf(ver, plat, S_amd64, ext), AssetNameOf(ver, plat, S_arm64, ext)>>
StandardAssets(ver, plat) == PackagedAssets(ver, plat, RegistryPackaging(plat, ver))
AssetsFor(ver, style) ==
    IF ver = Null THEN <<>>
    ELSE IF style = "standard"
    THEN StandardAssets(ver, S_linux) \o StandardAssets(ver, S_macOS)
           \o StandardAssets(ver, S_windows)
    ELSE IF style = "linuxOnly" THEN StandardAssets(ver, S_linux)
    ELSE <<>>
AssetsOf(tag, style) == AssetsFor(semver_clean(tag), style)
RegistryRelease(tag, style) == [tag_name |-> tag, assets |-> AssetsOf(tag, style)]

\* The list of the spec's example.
ExampleTags ==
    <<S_v \o V_2_0_0, S_notAVersion, S_v \o V_1_9_9, S_v \o V_2_0_0_rc1>>
\* The same releases, oldest first.
AscendingTags ==
    <<S_v \o V_1_9_9, S_notAVersion, S_v \o V_2_0_0_rc1, S_v \o V_2_0_0>>
\* Two pre-releases whose numeric identifiers differ by one above 2^53, the
\* lower listed first.
V_1_0_0_pre920 ==
    <<"1", ".", "0", ".", "0", "-", "9", "0", "0", "7", "1", "9", "9", "2",
      "5", "4", "7", "4", "0", "9", "9", "2", "0">>
V_1_0_0_pre921 ==
    <<"1", ".", "0", ".", "0", "-", "9", "0", "0", "7", "1", "9", "9", "2",
      "5", "4", "7", "4", "0", "9", "9", "2", "1">>
LargeNumberTags == <<S_v \o V_1_0_0_pre920, S_v \o V_1_0_0_pre921>>
TagLists ==
    {ExampleTags, AscendingTags, LargeNumberTags} \cup UNION {[1..n -> TagPool] : n \in 0..MaxTags}

\* The assets of the releases of a list: the two pre-releases of
\* LargeNumberTags were published without assets.
ListStyle(l) == IF l = LargeNumberTags THEN "none" ELSE "standard"

\* The answers the registry can give to the call made for specifier rv.
Responses(rv) ==
    {[ok |-> FALSE, data |-> <<>>]} \cup
    IF isStable(rv.inputVersion)
    THEN {[ok |-> TRUE, data |-> <<RegistryRelease(t, st)>>] :
            t \in StableTagPool, st \in AssetStyles}
    ELSE IF isLatest(rv.inputVersion)
    THEN {[ok |-> TRUE,
           data |-> [i \in 1..Len(l) |-> RegistryRelease(l[i], ListStyle(l))]] :
            l \in TagLists}
    ELSE {[ok |-> TRUE, data |-> <<RegistryRelease(RequestedVersion_tagName(rv), st)>>] :
            st \in AssetStyles}

\* Layouts of an extracted archive whose asset's base name is base.
S_LICENSE == <<"L", "I", "C", "E", "N", "S", "E">>
TreePool(base) ==
    { [root |-> {S_bin, S_LICENSE}, sub |-> <<>>],
      [root |-> {base}, sub |-> (base :> {S_bin, S_LICENSE})],
      [root |-> {base}, sub |-> (base :> {S_LICENSE})],
      [root |-> {S_bin, base}, sub |-> (base :> {S_LICENSE})],
      [root |-> {S_gh}, sub |-> (S_gh :> {S_bin})],
      [root |-> {base, S_LICENSE}, sub |-> <<>>] }

\* What `gh version` prints for an installation of version ver.
StdoutPool(ver) ==
    { <<"g", "h", " ", "v", "e", "r", "s", "i", "o", "n", " ">> \o ver,
      <<"g", "h", " ", "v", "e", "r", "s", "i", "o", "n", " ">> \o V_2_0_0 }

\* ------------------------------------------------------------------ state

VARIABLES
    variant,          \* the revision of the program that runs
    platform,         \* os.platform() of the runner
    arch,             \* os.arch() of the runner
    run,              \* number of the run, 1..MaxRuns
    input,            \* the `version` input of this run
    pc,               \* where the run is
    version,          \* <<RequestedVersion>> once constructed
    response,         \* <<answer>> of the registry to this run's call
    release,          \* <<release>> once resolved
    asset,            \* <<name>> of the asset chosen
    tree,             \* <<tree>> of the extracted archive
    extractedPath,    \* <<path>> to register, in tree
    installedVersion, \* <<[version, path]>> from the cache or from install
    stdout,           \* <<output>> of `gh version`
    cache0,           \* the tool cache when this run started
    unverified,       \* history: the versions an earlier run on this runner
                      \* installed afresh and then failed to verify
    toolCache,        \* versions of gh-cli the tool cache holds
    searchPath,       \* directories added to the execution path
    calls,            \* the collaborator calls of this run, in order
    outputs,          \* outputs of this run: set of [name, value]
    thrown,           \* <<error>> that ended the run
    failed            \* <<message>> given to core.setFailed

vars == <<variant, platform, arch, run, input, pc, version, response, release,
          asset, tree,
          extractedPath, installedVersion, stdout, cache0, unverified,
          toolCache, searchPath, calls, outputs, thrown, failed>>

runnerVars == <<variant, platform, arch, run, input, cache0, unverified>>
\* What only FetchingRelease and NewRun change, with runnerVars.
keptVars == <<runnerVars, response>>

osPlat == osPlatOf(platform)
osArch == osArchOf(arch)
execName == execNameOf(osPlat)

Call(op, arg) == [op |-> op, arg |-> arg]

\* The state of a process that has not run yet.
Fresh ==
    /\ pc = "load"
    /\ version = <<>>
    /\ response = <<>>
    /\ release = <<>>
    /\ asset = <<>>
    /\ tree = <<>>
    /\ extractedPath = <<>>
    /\ installedVersion = <<>>
    /\ stdout = <<>>
    /\ calls = <<>>
    /\ outputs = {}
    /\ thrown = <<>>
    /\ failed = <<>>

Init ==
    /\ variant \in Variants
    /\ platform \in PlatformPool
    /\ arch \in ArchPool
    /\ <<platform, arch>> \in RunnerPool
    /\ run = 1
    /\ input \in InputPool
    /\ toolCache \in InitialCachePool(arch)
    /\ cache0 = toolCache
    /\ unverified = {}
    /\ searchPath = {}
    /\ Fresh

\* A throw inside main(): the promise main() returns is rejected.
Reject(err) ==
    /\ thrown' = <<err>>
    /\ pc' = "rejected"

\* ---------------------------------------------------------------- actions

\* Evaluation of the module's top level: osPlat, osArch, execName.  A throw
\* here is outside the try block at the end of the file and outside main().
LoadModule ==
    /\ pc = "load"
    /\ IF osPlat = Null
       THEN /\ thrown' = <<Err("UnsupportedPlatform", <<platform>>)>>
            /\ pc' = "crashed"
       ELSE /\ pc' = "validate"
            /\ UNCHANGED thrown
    /\ UNCHANGED <<keptVars, version, release, asset, tree, extractedPath,
                   installedVersion, stdout, toolCache, searchPath, calls,
                   outputs, failed>>

\* core.getInput(name, {required: true}): the trimmed value, Null for the
\* throw on an empty one.
getInputRequired(raw) == IF raw = <<>> THEN Null ELSE Trim(raw)

\* main(), group 'Validate input'.
ValidateInput ==
    /\ pc = "validate"
    /\ IF getInputRequired(input) = Null
       THEN /\ Reject(Err("InputRequired", <<>>))
            /\ UNCHANGED version
       ELSE IF RequestedVersion(getInputRequired(input)).threw
       THEN /\ Reject(Err("InvalidVersion", getInputRequired(input)))
            /\ UNCHANGED version
       ELSE /\ version' = <<RequestedVersion(getInputRequired(input))>>
            /\ pc' = "checkCache"
            /\ UNCHANGED thrown
    /\ UNCHANGED <<keptVars, release, asset, tree, extractedPath,
                   installedVersion, stdout, toolCache, searchPath, calls,
                   outputs, failed>>

\* The version main() looks up first: version.cleanedVersion in part_001,
\* cleanedVersion(version.tagName) in the older revisions.
FirstLookupVersion(v, rv) ==
    IF v = "part_001" THEN RequestedVersion_cleanedVersion(rv)
    ELSE cleanedVersion(RequestedVersion_tagName(rv))

\* main(), group 'Checking cache'.
CheckingCache ==
    /\ pc = "checkCache"
    /\ LET rv == version[1]
           exact == ~isStable(rv.inputVersion) /\ ~isLatest(rv.inputVersion)
           found == IF exact
                    THEN checkCache(toolCache, FirstLookupVersion(variant, rv), arch)
                    ELSE <<>>
       IN  /\ calls' = IF exact
                       THEN Append(calls, Call("find", FirstLookupVersion(variant, rv)))
                       ELSE calls
           /\ installedVersion' = found
           /\ pc' = IF found # <<>> THEN "verify" ELSE "fetch"
    /\ UNCHANGED <<keptVars, version, release, asset, tree, extractedPath,
                   stdout, toolCache, searchPath, outputs, thrown, failed>>

\* main(), group 'Fetching release', up to the return of the awaited
\* findMatchingRelease.
Fetched(res, call) ==
    /\ calls' = Append(calls, call)
    /\ IF res.threw # <<>>
       THEN /\ Reject(res.threw[1])
            /\ UNCHANGED release
       ELSE /\ release' = res.release
            /\ pc' = "fetched"
            /\ UNCHANGED thrown
RegistryCallOf(rv) ==
    Call(RegistryCall(rv),
         IF RegistryCall(rv) = "getReleaseByTag"
         THEN RequestedVersion_tagName(rv) ELSE <<>>)
FetchingRelease ==
    /\ pc = "fetch"
    /\ \E resp \in Responses(version[1]) :
         /\ response' = <<resp>>
         /\ Fetched(findMatchingRelease(variant, version[1], resp),
                    RegistryCallOf(version[1]))
    /\ UNCHANGED <<runnerVars, version, asset, tree, extractedPath,
                   installedVersion, stdout, toolCache, searchPath, outputs,
                   failed>>

\* main(), group 'Fetching release', the rest: checkCache on the release's
\* version.  In the older revisions checkCache cleans the release's tag
\* first and throws when it is no version.
\* (mutant: the release's version is not looked up, the release is installed)
Resolved_NoLookup(rel, found) ==
    /\ installedVersion' = <<>>
    /\ pc' = "install"
    /\ UNCHANGED <<calls, thrown>>
Resolved(rel, found) ==
    /\ calls' = Append(calls, Call("find", rel.version))
    /\ installedVersion' = found
    /\ pc' = IF found # <<>> THEN "verify" ELSE "install"
    /\ UNCHANGED thrown
FetchingRelease_checkCache ==
    /\ pc = "fetched"
    /\ IF release[1].version = Null
       THEN /\ Reject(Err("InvalidVersion", release[1].tag_name))
            /\ UNCHANGED <<calls, installedVersion>>
       ELSE Resolved(release[1], checkCache(toolCache, release[1].version, arch))
    /\ UNCHANGED <<keptVars, version, release, asset, tree, extractedPath,
                   stdout, toolCache, searchPath, outputs, failed>>

\* release.assets.find(a => a.name === name): <<a>>, or <<>> for undefined.
FindAsset(assets, name) ==
    IF \E i \in 1..Len(assets) : assets[i] = name
    THEN <<assets[CHOOSE i \in 1..Len(assets) :
                    assets[i] = name /\ \A j \in 1..(i - 1) : assets[j] # name]>>
    ELSE <<>>

\* main(), group 'Installing release', up to the call of install().
Selected(name, found) ==
    IF found = <<>>
    THEN /\ Reject(Err("AssetNotFound", name))
         /\ UNCHANGED asset
    ELSE /\ asset' = found
         /\ pc' = "download"
         /\ UNCHANGED thrown
SelectAsset(assets, name) == Selected(name, FindAsset(assets, name))
InstallingRelease ==
    /\ pc = "install"
    /\ SelectAsset(release[1].assets,
                   assetName(variant, osPlat, osArch, release[1].version))
    /\ UNCHANGED <<keptVars, version, release, tree, extractedPath,
                   installedVersion, stdout, toolCache, searchPath, calls,
                   outputs, failed>>

\* install(): tools.downloadTool.
Download ==
    /\ pc = "download"
    /\ calls' = Append(calls, Call("downloadTool", asset[1]))
    /\ \E ok \in BOOLEAN :
         IF ok THEN pc' = "extract" /\ UNCHANGED thrown
         ELSE Reject(Err("DownloadFailed", <<>>))
    /\ UNCHANGED <<keptVars, version, release, asset, tree, extractedPath,
                   installedVersion, stdout, toolCache, searchPath, outputs,
                   failed>>

\* install(): extraction by the extension, then the choice of the directory
\* to register.
Located(t, loc) ==
    /\ tree' = <<t>>
    /\ IF loc.threw # <<>>
       THEN /\ Reject(loc.threw[1])
            /\ UNCHANGED extractedPath
       ELSE /\ extractedPath' = <<loc.path>>
            /\ pc' = "cacheDir"
            /\ UNCHANGED thrown
ExtractAs(ext) ==
    /\ calls' = Append(calls,
           Call(IF ext = S_zip THEN "extractZip" ELSE "extractTar", asset[1]))
    /\ \/ /\ Reject(Err("ExtractionFailed", <<>>))
          /\ UNCHANGED <<tree, extractedPath>>
       \/ \E t \in TreePool(basename(asset[1], <<".">> \o ext, osPlat = S_windows)) :
            Located(t, Locate(variant, t, asset[1], ext, osPlat = S_windows))
Extract ==
    /\ pc = "extract"
    /\ ExtractAs(InstallExtension(variant, osPlat, release[1].version))
    /\ UNCHANGED <<keptVars, version, release, asset, installedVersion, stdout,
                   toolCache, searchPath, outputs, failed>>

\* install(): tools.cacheDir(extractedPath, execName, toolName, version), which
\* copies the directory into the cache (and throws when there is no such
\* directory), and the InstalledVersion returned.  By the signature
\* cacheDir(sourceDir, tool, version, arch) the tool is execName, the version
\* toolName and the arch the version installed.
CacheDir ==
    /\ pc = "cacheDir"
    /\ calls' = Append(calls,
           Call("cacheDir", <<execName, toolName, release[1].version>>))
    /\ \/ /\ Reject(Err("CacheDirFailed", <<>>))
          /\ UNCHANGED <<toolCache, installedVersion>>
       \/ /\ PathExists(tree[1], extractedPath[1])
          /\ toolCache' =
               tools_cacheDir(toolCache, execName, toolName, release[1].version)
          /\ installedVersion' =
               <<[version |-> release[1].version,
                  path |-> CachePath(execName, toolName, release[1].version)]>>
          /\ pc' = "verify"
          /\ UNCHANGED thrown
    /\ UNCHANGED <<keptVars, version, release, asset, tree, extractedPath,
                   stdout, searchPath, outputs, failed>>

\* setAndCheckOutput(installedVersion) up to the call of getExecOutput.  With
\* core.isDebug() the directory is listed first, and a directory that cannot
\* be read ends the run there.
setAndCheckOutput ==
    /\ pc = "verify"
    /\ \/ /\ Reject(Err("FsError", installedVersion[1].path))
          /\ UNCHANGED <<searchPath, calls>>
       \/ /\ searchPath' = searchPath \cup {<<installedVersion[1].path, S_bin>>}
          /\ calls' = calls \o <<Call("addPath", installedVersion[1].version),
                                 Call("exec", execName)>>
          /\ pc' = "exec"
          /\ UNCHANGED thrown
    /\ UNCHANGED <<keptVars, version, release, asset, tree, extractedPath,
                   installedVersion, stdout, toolCache, outputs, failed>>

\* setAndCheckOutput(installedVersion) from the return of the awaited
\* getExecOutput on.
Checked(out, ver) ==
    /\ stdout' = <<out>>
    /\ IF VersionFound(out, ver)
       THEN /\ outputs' = outputs \cup {[name |-> "installed-version", value |-> ver]}
            /\ calls' = Append(calls, Call("setOutput", ver))
            /\ pc' = "done"
            /\ UNCHANGED thrown
       ELSE /\ Reject(Err("VerificationFailed", ver))
            /\ UNCHANGED <<outputs, calls>>
getExecOutput ==
    /\ pc = "exec"
    /\ \/ /\ Reject(Err("ExecFailed", <<>>))
          /\ UNCHANGED <<stdout, outputs, calls>>
       \/ \E out \in StdoutPool(installedVersion[1].version) :
            Checked(out, installedVersion[1].version)
    /\ UNCHANGED <<keptVars, version, release, asset, tree, extractedPath,
                   installedVersion, toolCache, searchPath, failed>>

\* main().catch((error) => core.setFailed(error.message))
CatchHandler ==
    /\ pc = "rejected"
    /\ failed' = <<thrown[1]>>
    /\ calls' = Append(calls, Call("setFailed", <<>>))
    /\ pc' = "failed"
    /\ UNCHANGED <<keptVars, version, release, asset, tree, extractedPath,
                   installedVersion, stdout, toolCache, searchPath, outputs,
                   thrown>>

Ended == pc \in {"done", "failed", "crashed"}

\* The run registered a version in the tool cache and then did not find it in
\* the output of `gh version`.
FailedFreshInstall ==
    /\ thrown # <<>>
    /\ thrown[1].kind = "VerificationFailed"
    /\ \E i \in 1..Len(calls) : calls[i].op = "cacheDir"

\* The next run of the action on the same runner: a new process; the tool
\* cache and the execution path stay.
NewRun ==
    /\ Ended
    /\ run < MaxRuns
    /\ run' = run + 1
    /\ input' \in InputPool
    /\ cache0' = toolCache
    /\ unverified' = IF FailedFreshInstall
                     THEN unverified \cup {installedVersion[1].version}
                     ELSE unverified
    /\ pc' = "load"
    /\ version' = <<>>
    /\ response' = <<>>
    /\ release' = <<>>
    /\ asset' = <<>>
    /\ tree' = <<>>
    /\ extractedPath' = <<>>
    /\ installedVersion' = <<>>
    /\ stdout' = <<>>
    /\ calls' = <<>>
    /\ outputs' = {}
    /\ thrown' = <<>>
    /\ failed' = <<>>
    /\ UNCHANGED <<variant, platform, arch, toolCache, searchPath>>

Next ==
    \/ LoadModule
    \/ ValidateInput
    \/ CheckingCache
    \/ FetchingRelease
    \/ FetchingRelease_checkCache
    \/ InstallingRelease
    \/ Download
    \/ Extract
    \/ CacheDir
    \/ setAndCheckOutput
    \/ getExecOutput
    \/ CatchHandler
    \/ NewRun

Spec == Init /\ [][Next]_vars

\* ------------------------------------------------------------------ claims

RegistryOps == {"getLatestRelease", "listReleases", "getReleaseByTag"}
InstallOps == {"downloadTool", "extractZip", "extractTar", "cacheDir"}
CalledOps == {calls[i].op : i \in 1..Len(calls)}
\* Position of the first call of op in this run, 0 when there is none.
FirstCall(op) ==
    IF op \in CalledOps
    THEN CHOOSE i \in 1..Len(calls) :
           calls[i].op = op /\ \A j \in 1..(i - 1) : calls[j].op # op
    ELSE 0
Published == {o \in outputs : o.name = "installed-version"}

\* What the inputs of the model normalize to (Null: not a version).
Normalized(in) ==
    IF in \in {V_1_2_3, S_v \o V_1_2_3, S_1_2_3_nl, S_1_2_3_nbsp}
    THEN V_1_2_3 ELSE Null
\* The input asks for an exact version.
ExactInput == Normalized(input) # Null
\* The directory in which a lookup of gh-cli in version v finds the tool on
\* this runner, and whether the cache holds it.
EntryOf(v) == <<toolName, v, arch>>
Holds(cache, v) == EntryOf(v) \in cache
\* A release has been resolved, its tag a version.
HasRelease == release # <<>> /\ release[1].version # Null
\* The run ended where the directory to verify could not be listed.
ListingFailed ==
    /\ thrown # <<>>
    /\ thrown[1].kind = "FsError"
    /\ installedVersion # <<>>
    /\ "exec" \notin CalledOps

\* C1: when the input is an exact version and the tool cache holds that
\* version as the run starts, the run makes no registry call and no download,
\* extract or cacheDir call, never enters resolution or installation, and what
\* it verifies is the cached entry.
C1_ExactCacheHitSkipsResolution ==
    (ExactInput /\ Holds(cache0, Normalized(input))) =>
        /\ CalledOps \cap (RegistryOps \cup InstallOps) = {}
        /\ pc \notin {"fetch", "fetched", "install", "download", "extract",
                      "cacheDir"}
        /\ release = <<>>
        /\ installedVersion # <<>> =>
             installedVersion[1] = [version |-> Normalized(input),
                                    path |-> EntryOf(Normalized(input))]

C1_Witness ==
    /\ ExactInput
    /\ Holds(cache0, Normalized(input))
    /\ pc = "done"
    /\ CalledOps = {"find", "addPath", "exec", "setOutput"}

\* C2: 'installed-version' is published only after `gh version` has run and
\* its output contains the installed version; its value is the canonical
\* version of the InstalledVersion (the cache's or the installer's); and when
\* the output lacks the version the run ends in VerificationFailed with
\* nothing published.
C2_PublishedOnlyAfterVerification ==
    /\ \A o \in Published :
         /\ stdout # <<>>
         /\ Contains(stdout[1], o.value)
         /\ FirstCall("exec") > 0
         /\ FirstCall("exec") < FirstCall("setOutput")
         /\ installedVersion # <<>>
         /\ o.value = installedVersion[1].version
         /\ semver_clean(o.value) = o.value
         /\ installedVersion[1].path \in toolCache
    /\ (stdout # <<>> /\ ~Contains(stdout[1], installedVersion[1].version)) =>
         /\ outputs = {}
         /\ thrown # <<>>
         /\ thrown[1].kind = "VerificationFailed"
         /\ pc \in {"rejected", "failed"}

C2_Witness ==
    /\ pc = "done"
    /\ Published = {[name |-> "installed-version",
                     value |-> installedVersion[1].version]}
    /\ release # <<>>
    /\ Contains(stdout[1], release[1].version)

\* C3: whichever step fails first, the run ends with core.setFailed given that
\* error's message as its last call and nothing published; a run that
\* succeeds publishes the installed version alone and never reports failure.
C3_FailFastReportsFailure ==
    /\ (Ended /\ thrown # <<>>) =>
         /\ failed = thrown
         /\ calls # <<>>
         /\ calls[Len(calls)].op = "setFailed"
         /\ outputs = {}
    /\ thrown # <<>> => outputs = {}
    /\ pc = "done" =>
         /\ thrown = <<>>
         /\ failed = <<>>
         /\ "setFailed" \notin CalledOps
         /\ outputs = {[name |-> "installed-version",
                        value |-> installedVersion[1].version]}

\* Rank of the versions of the registry's tags under semantic-version
\* precedence: 1.0.0-90071992547409920 < 1.0.0-90071992547409921 < 1.9.9 <
\* 2.0.0-rc1 < 2.0.0 (numeric identifiers of a pre-release are compared
\* numerically); 0 for a tag that is no version.
TagRank(tag) ==
    CASE tag = S_v \o V_1_0_0_pre920 -> 1
      [] tag = S_v \o V_1_0_0_pre921 -> 2
      [] tag = S_v \o V_1_9_9 -> 3
      [] tag = S_v \o V_2_0_0_rc1 -> 4
      [] tag = S_v \o V_2_0_0 -> 5
      [] OTHER -> 0
TagVersion(tag) ==
    CASE tag = S_v \o V_1_0_0_pre920 -> V_1_0_0_pre920
      [] tag = S_v \o V_1_0_0_pre921 -> V_1_0_0_pre921
      [] tag = S_v \o V_1_9_9 -> V_1_9_9
      [] tag = S_v \o V_2_0_0_rc1 -> V_2_0_0_rc1
      [] tag = S_v \o V_2_0_0 -> V_2_0_0
      [] OTHER -> Null
LatestAnswered == input = S_latest /\ response # <<>> /\ response[1].ok
AnsweredTags == {response[1].data[i].tag_name : i \in 1..Len(response[1].data)}

\* C4: in Latest mode, for every list the registry answers with, the tags
\* that are no version are dropped; with none left the resolution fails with
\* NoMatchingRelease, otherwise the release returned is the one of the highest
\* version (a pre-release below its release); the spec's list gives 2.0.0.
C4_LatestIsMaximum ==
    LatestAnswered =>
        /\ (\A t \in AnsweredTags : TagRank(t) = 0) =>
             /\ release = <<>>
             /\ thrown # <<>>
             /\ thrown[1].kind = "NoMatchingRelease"
        /\ (\E t \in AnsweredTags : TagRank(t) > 0) =>
             /\ release # <<>>
             /\ release[1].tag_name \in AnsweredTags
             /\ TagRank(release[1].tag_name) > 0
             /\ \A t \in AnsweredTags : TagRank(t) <= TagRank(release[1].tag_name)
             /\ release[1].version = TagVersion(release[1].tag_name)
             /\ \E i \in 1..Len(response[1].data) :
                  /\ response[1].data[i].tag_name = release[1].tag_name
                  /\ response[1].data[i].assets = release[1].assets
        /\ [i \in 1..Len(response[1].data) |-> response[1].data[i].tag_name]
             \in {ExampleTags, AscendingTags} => release[1].version = V_2_0_0

\* The versions of the model below 2.28.0.
Below_2_28_0 ==
    {V_1_0_0_pre920, V_1_0_0_pre921, V_1_2_3, V_1_9_9, V_2_0_0, V_2_0_0_rc1,
     V_2_27_9}
\* The extension the claim names for a platform and a version.
ClaimedExtension(plat, versionString) ==
    IF plat = S_windows THEN S_zip
    ELSE IF plat = S_linux THEN S_targz
    ELSE IF versionString \in Below_2_28_0 THEN S_targz ELSE S_zip

\* C5: for the release resolved, the extension is zip on windows, tar.gz on
\* linux, and on macOS tar.gz below 2.28.0 and zip from 2.28.0 on; the asset
\* name is built with that extension and the archive is extracted by it.
C5_AssetExtension ==
    (HasRelease /\ osPlat # Null) =>
        /\ InstallExtension(variant, osPlat, release[1].version)
             = ClaimedExtension(osPlat, release[1].version)
        /\ NameExtension(variant, osPlat, release[1].version)
             = ClaimedExtension(osPlat, release[1].version)
        /\ asset # <<>> =>
             asset[1] = AssetNameOf(release[1].version, osPlat, osArch,
                                    ClaimedExtension(osPlat, release[1].version))
        /\ "extractZip" \in CalledOps =>
             ClaimedExtension(osPlat, release[1].version) = S_zip
        /\ "extractTar" \in CalledOps =>
             ClaimedExtension(osPlat, release[1].version) = S_targz

\* The name the claim gives the asset, with the extension the revision's own
\* assetExtension has for the platform and the version.
ClaimedAssetName ==
    <<"g", "h", "_">> \o release[1].version \o <<"_">> \o osPlat \o <<"_">>
      \o osArch \o <<".">> \o InstallExtension(variant, osPlat, release[1].version)
HasAssetNamed(name) ==
    \E i \in 1..Len(release[1].assets) : release[1].assets[i] = name

\* C6: the asset looked up is gh_<version>_<osFamily>_<arch>.<extension>, the
\* extension being zip or tar.gz; the asset chosen has exactly this name; and
\* the run fails with AssetNotFound, with no download call, exactly when the
\* release has no asset of this name.
C6_AssetName ==
    (HasRelease /\ pc \notin {"fetched", "install"} /\ installedVersion = <<>>) =>
        /\ InstallExtension(variant, osPlat, release[1].version) \in {S_zip, S_targz}
        /\ asset # <<>> => asset[1] = ClaimedAssetName
        /\ HasAssetNamed(ClaimedAssetName) => asset = <<ClaimedAssetName>>
        /\ ~HasAssetNamed(ClaimedAssetName) =>
             /\ asset = <<>>
             /\ thrown # <<>>
             /\ thrown[1].kind = "AssetNotFound"
             /\ "downloadTool" \notin CalledOps

\* The base file name of the asset chosen.
AssetBase ==
    basename(asset[1],
             <<".">> \o InstallExtension(variant, osPlat, release[1].version),
             osPlat = S_windows)

\* C7: once the archive is extracted: a root holding bin is registered as it
\* is; else a root holding a directory named as the asset's base name that
\* holds bin has that directory registered; in every other case the
\* installation fails with NoExecutableFound and the tool cache is untouched.
C7_DirectoryResolution ==
    tree # <<>> =>
        IF S_bin \in tree[1].root
        THEN extractedPath = << <<>> >>
        ELSE IF /\ AssetBase \in tree[1].root
                /\ AssetBase \in DOMAIN tree[1].sub
                /\ S_bin \in tree[1].sub[AssetBase]
        THEN extractedPath = << <<AssetBase>> >>
        ELSE /\ extractedPath = <<>>
             /\ thrown # <<>>
             /\ thrown[1].kind = "NoExecutableFound"
             /\ "cacheDir" \notin CalledOps
             /\ toolCache = cache0

\* The modes a constructed specifier is in.
ModesOf(rv) ==
    {m \in {"Stable", "Latest", "Exact"} :
       \/ m = "Stable" /\ isStable(rv.inputVersion)
       \/ m = "Latest" /\ isLatest(rv.inputVersion)
       \/ m = "Exact" /\ rv.semverVersion # Null}

\* C8: a specifier constructed from 'stable' is Stable, from 'latest' Latest,
\* both without a version, from any other string that normalizes Exact with
\* the normalized version, always in one mode alone; for every other string
\* the construction fails with InvalidVersion and the run makes no cache,
\* registry or download call.
C8_Classification ==
    /\ RequestedVersion(<<>>).threw
    /\ version # <<>> =>
         /\ Cardinality(ModesOf(version[1])) = 1
         /\ input = S_stable =>
              ModesOf(version[1]) = {"Stable"} /\ version[1].semverVersion = Null
         /\ input = S_latest =>
              ModesOf(version[1]) = {"Latest"} /\ version[1].semverVersion = Null
         /\ input \notin {S_stable, S_latest} =>
              /\ ModesOf(version[1]) = {"Exact"}
              /\ Normalized(input) # Null
              /\ version[1].semverVersion = Normalized(input)
    /\ (input \notin {S_stable, S_latest, <<>>} /\ Normalized(input) = Null) =>
         /\ version = <<>>
         /\ CalledOps \subseteq {"setFailed"}
         /\ pc \in {"load", "crashed", "validate", "rejected", "failed"}
         /\ pc \in {"rejected", "failed"} =>
              /\ thrown[1].kind = "InvalidVersion"
              /\ thrown[1].arg = (IF input = S_blank THEN <<>> ELSE input)

C8_Witness ==
    /\ input = S_1_2
    /\ pc = "failed"
    /\ failed = <<Err("InvalidVersion", S_1_2)>>
    /\ calls = <<Call("setFailed", <<>>)>>

\* C9: the tagName of an Exact specifier is "v" and the normalized version
\* ('1.2.3' and 'v1.2.3' both give 'v1.2.3'), and it is the tag asked of the
\* registry; reading tagName or cleanedVersion of a Stable or Latest specifier
\* throws.
C9_TagName ==
    version # <<>> =>
        /\ Normalized(input) # Null =>
             /\ RequestedVersion_tagName(version[1]) = S_v \o Normalized(input)
             /\ RequestedVersion_cleanedVersion(version[1]) = Normalized(input)
             /\ \A i \in 1..Len(calls) : calls[i].op = "getReleaseByTag" =>
                  calls[i].arg = S_v \o Normalized(input)
        /\ input \in {V_1_2_3, S_v \o V_1_2_3} =>
             RequestedVersion_tagName(version[1]) = <<"v", "1", ".", "2", ".", "3">>
        /\ input \in {S_stable, S_latest} =>
             /\ RequestedVersion_tagName(version[1]) = Null
             /\ RequestedVersion_cleanedVersion(version[1]) = Null

C9_Witness ==
    /\ input = V_1_2_3
    /\ version # <<>>
    /\ RequestedVersion_tagName(version[1]) = <<"v", "1", ".", "2", ".", "3">>
    /\ "getReleaseByTag" \in CalledOps
    /\ calls[FirstCall("getReleaseByTag")].arg = <<"v", "1", ".", "2", ".", "3">>

\* The version of the release the registry answered with, its asset for
\* linux/amd64, and whether the extracted archive holds bin where that
\* asset's archives have it.
StableVersion == semver_clean(response[1].data[1].tag_name)
StableAsset == AssetNameOf(StableVersion, S_linux, S_amd64, S_targz)
CollaboratorFailures ==
    {"RegistryFailure", "DownloadFailed", "ExtractionFailed", "CacheDirFailed",
     "ExecFailed", "FsError"}
UsableTree(t, base) ==
    \/ S_bin \in t.root
    \/ base \in DOMAIN t.sub /\ S_bin \in t.sub[base]

\* C10: a run for 'stable' on linux/amd64, the resolved version not cached,
\* the release carrying gh_<version>_linux_amd64.tar.gz and no collaborator
\* failing, ends having called, in this order, getLatestRelease, find (the
\* resolved version), downloadTool (that asset), extractTar, cacheDir,
\* addPath, exec and setOutput, with 'installed-version' the resolved version.
C10_StableEndToEnd ==
    ( /\ Ended
      /\ input = S_stable
      /\ platform = "linux"
      /\ arch = S_x64
      /\ response # <<>>
      /\ response[1].ok
      /\ StableVersion # Null
      /\ ~Holds(cache0, StableVersion)
      /\ \E i \in 1..Len(response[1].data[1].assets) :
           response[1].data[1].assets[i] = StableAsset
      /\ thrown # <<>> => thrown[1].kind \notin CollaboratorFailures
      /\ tree # <<>> =>
           UsableTree(tree[1], basename(StableAsset, <<".">> \o S_targz, FALSE))
      /\ stdout # <<>> => Contains(stdout[1], StableVersion) )
    =>
    /\ pc = "done"
    /\ [i \in 1..Len(calls) |-> calls[i].op] =
         <<"getLatestRelease", "find", "downloadTool", "extractTar", "cacheDir",
           "addPath", "exec", "setOutput">>
    /\ calls[2].arg = StableVersion
    /\ calls[3].arg = StableAsset
    /\ calls[4].arg = StableAsset
    /\ calls[6].arg = StableVersion
    /\ calls[7].arg = S_gh
    /\ calls[8].arg = StableVersion
    /\ outputs = {[name |-> "installed-version", value |-> StableVersion]}

\* C11: every run that ends successfully has published an output named
\* 'full-version' whose value is the version that was installed.
C11_FullVersionOutput ==
    pc = "done" =>
        \E o \in outputs :
            /\ o.name = "full-version"
            /\ o.value = installedVersion[1].version

\* Positions in this run's calls of the cache lookups and of the registry calls.
FindCalls == {i \in 1..Len(calls) : calls[i].op = "find"}
RegistryCalls == {i \in 1..Len(calls) : calls[i].op \in RegistryOps}
\* The release was resolved and the cache held (did not hold) its version.
ResolvedHit == HasRelease /\ Holds(cache0, release[1].version)
ResolvedMiss == HasRelease /\ ~Holds(cache0, release[1].version)
\* The run got to the asset: a name not found, an asset chosen, or a call of
\* the installer.
ReachedInstall ==
    \/ asset # <<>>
    \/ CalledOps \cap InstallOps # {}
    \/ thrown # <<>> /\ thrown[1].kind = "AssetNotFound"

\* C12: for 'stable' and 'latest' every cache lookup comes after the registry
\* call; a resolved release is followed by one lookup of its version, the
\* next call made, and by no other, a failed resolution by none; when that
\* lookup hits, no asset is chosen, nothing is downloaded, extracted or
\* registered, and the cached path is what is verified; the asset is reached
\* when, and only when, it misses.
C12_CacheCheckOrdering ==
    /\ Cardinality(RegistryCalls) <= 1
    /\ input \in {S_stable, S_latest} =>
         \A i \in FindCalls : \E j \in RegistryCalls : j < i
    /\ release # <<>> => RegistryCalls # {}
    /\ \A j \in RegistryCalls :
         IF HasRelease /\ pc # "fetched"
         THEN /\ {i \in FindCalls : i > j} = {j + 1}
              /\ calls[j + 1].arg = release[1].version
         ELSE {i \in FindCalls : i > j} = {}
    /\ ResolvedHit =>
         /\ ~ReachedInstall
         /\ toolCache = cache0
         /\ pc \in {"fetched", "verify", "exec", "rejected", "failed", "done"}
         /\ pc # "fetched" =>
              installedVersion =
                <<[version |-> release[1].version,
                   path |-> EntryOf(release[1].version)]>>
         /\ (pc \notin {"fetched", "verify"} /\ ~ListingFailed) =>
              /\ \E i \in 1..Len(calls) :
                   calls[i] = Call("addPath", release[1].version)
              /\ <<EntryOf(release[1].version), S_bin>> \in searchPath
    /\ ResolvedMiss => (pc \in {"fetched", "install"} \/ ReachedInstall)
    /\ ReachedInstall => ResolvedMiss

C12_Witness ==
    /\ input = S_stable
    /\ ResolvedHit
    /\ pc = "done"
    /\ calls = <<Call("getLatestRelease", <<>>),
                 Call("find", S_2_28_0),
                 Call("addPath", S_2_28_0),
                 Call("exec", execName),
                 Call("setOutput", S_2_28_0)>>

\* C13: a run registers the directory in the tool cache before it adds
\* <path>/bin to the execution path, and does that before it runs `gh
\* version`; a run that installed a version afresh and failed to verify it
\* leaves the cache entry and the path entry in place, and they stay; every
\* later run that asks for exactly that version finds it in the cache, makes
\* no registry and no installer call, and verifies the cached entry.
C13_FailedInstallStaysCached ==
    /\ cache0 \subseteq toolCache
    /\ \A i, j \in 1..Len(calls) :
         /\ (calls[i].op = "cacheDir" /\ calls[j].op = "addPath") => i < j
         /\ (calls[i].op = "addPath" /\ calls[j].op = "exec") => i < j
    /\ FailedFreshInstall =>
         /\ installedVersion[1].version = release[1].version
         /\ installedVersion[1].path \in toolCache
         /\ <<installedVersion[1].path, S_bin>> \in searchPath
    /\ (ExactInput /\ Normalized(input) \in unverified) =>
         /\ CalledOps \cap (RegistryOps \cup InstallOps) = {}
         /\ toolCache = cache0
         /\ release = <<>>
         /\ pc \notin {"fetch", "fetched", "install", "download", "extract",
                       "cacheDir"}
         /\ installedVersion # <<>> =>
              /\ calls[1] = Call("find", Normalized(input))
              /\ installedVersion[1].version = Normalized(input)
              /\ installedVersion[1].path \in cache0
         /\ (pc \in {"rejected", "failed", "done"} /\ ~ListingFailed) =>
              /\ calls[2] = Call("addPath", Normalized(input))
              /\ calls[3] = Call("exec", execName)

====
